---- MODULE Spec2Model ----
(***************************************************************************)
(* PSDocling PyWebView launcher (Launch-PyWebView.py).                     *)
(*                                                                         *)
(* The launcher polls the backend's health endpoint, creates the bridge    *)
(* object (DownloadAPI) and the window, wires the window into the bridge   *)
(* and starts the GUI event loop.  Script content running in the window    *)
(* calls download_file on the bridge; every such call runs on a thread of  *)
(* its own, so calls may overlap.                                          *)
(*                                                                         *)
(* These specifications are given:                                         *)
(*   Spec        the launcher process started without arguments: main()    *)
(*               and the script calls that the started event loop lets in; *)
(*   SpecMain    main() with any command line, up to the event loop;       *)
(*   SpecTwice   a wired DownloadAPI whose caller repeats a call once;     *)
(*   SpecProbe   check_backend_ready called with any max_attempts, delay;  *)
(*   SpecBridge  a DownloadAPI object used through its public methods in   *)
(*               any order (set_window, download_file).                    *)
(***************************************************************************)
EXTENDS Integers, Sequences, FiniteSets, TLC

VARIABLES
    main_pc,      \* position of main(); "harness" when main does not run
    exit_code,    \* process exit status, meaningful once main_pc = "exited"
    argv,         \* sys.argv: the script name, then the arguments
    ports,        \* main's api_port and web_port
    created,      \* the objects main has constructed: "api", "window"
    probe,        \* the frame of check_backend_ready
    window,       \* DownloadAPI._window
    calls,        \* one frame of download_file per bridge thread
    fs,           \* the files at the paths a save dialog can return
    prev          \* frame of the call a repeating script made before (RepeatCall)

vars == <<main_pc, exit_code, argv, ports, created, probe, window, calls, fs,
          prev>>

-----------------------------------------------------------------------------
(* Bounds of the model *)

\* largest max_attempts that SpecProbe passes to check_backend_ready
MaxAttempts == 3

\* largest delay (seconds) that SpecProbe passes to check_backend_ready
MaxDelay == 2

-----------------------------------------------------------------------------
(* Program constants *)

\* def check_backend_ready(url, max_attempts=30, delay=1)
DefaultMaxAttempts == 30

DefaultDelay == 1

\* response.status_code == 200
HTTP_OK == 200

-----------------------------------------------------------------------------
(* check_backend_ready *)

\* What one requests.get(.../api/health, timeout=2) can produce: a response
\* with a status code, or a requests.exceptions.RequestException (connection
\* refused, timeout).
HealthOutcomes ==
    { [exc |-> "none", status_code |-> 200],
      [exc |-> "none", status_code |-> 503],
      [exc |-> "RequestException", status_code |-> 0] }

\* The frame before the function is called.
ProbeIdle ==
    [ pc |-> "idle", max_attempts |-> 0, delay |-> 0, attempt |-> 0,
      requests |-> 0, sleeps |-> 0, slept |-> 0, first200 |-> 0,
      last |-> "none", ready |-> FALSE ]

\* Entry of check_backend_ready(url, m, d): attempt ranges over range(m).
\* requests, sleeps, slept (seconds) and first200 (the number of the first
\* request answered 200, 0 if none) observe the calls the function makes.
ProbeEntry(m, d) ==
    [ ProbeIdle EXCEPT !.pc = "loop", !.max_attempts = m, !.delay = d ]

\* "if response.status_code == 200" inside "try ... except RequestException: pass"
HealthOk(o) == o.exc = "none" /\ o.status_code = HTTP_OK

\* Mutant of InRange: the loop runs for attempt = max_attempts as well
InRangeInclusive(attempt, max_attempts) == attempt <= max_attempts

\* "for attempt in range(max_attempts)": is there a next value
InRange(attempt, max_attempts) == attempt < max_attempts

\* Mutant of ProbeRequest: a 200 is noted but the loop does not return on it
ProbeRequestKeepsPolling(o) ==
    /\ probe.pc = "loop"
    /\ InRange(probe.attempt, probe.max_attempts)
    /\ probe' = [ probe EXCEPT
           !.requests = @ + 1,
           !.first200 = IF @ = 0 /\ o.exc = "none" /\ o.status_code = 200
                        THEN probe.requests + 1 ELSE @,
           !.last = IF o.exc # "none" THEN "error"
                    ELSE IF o.status_code = 200 THEN "ok" ELSE "refused",
           !.ready = o.exc = "none" /\ o.status_code = 200,
           !.pc = "sleep" ]
    /\ UNCHANGED <<main_pc, exit_code, argv, ports, created, prev, window, calls, fs>>

\* One iteration of the for loop up to the end of the try statement:
\* requests.get, then return True on a 200, otherwise fall through to sleep.
ProbeRequest(o) ==
    /\ probe.pc = "loop"
    /\ InRange(probe.attempt, probe.max_attempts)
    /\ probe' = [ probe EXCEPT
           !.requests = @ + 1,
           !.first200 = IF @ = 0 /\ o.exc = "none" /\ o.status_code = 200
                        THEN probe.requests + 1 ELSE @,
           !.last = IF o.exc # "none" THEN "error"
                    ELSE IF o.status_code = 200 THEN "ok" ELSE "refused",
           !.ready = HealthOk(o),
           !.pc = IF HealthOk(o) THEN "done" ELSE "sleep" ]
    /\ UNCHANGED <<main_pc, exit_code, argv, ports, created, prev, window, calls, fs>>

\* time.sleep(delay) at the end of the loop body, then the next value of range
ProbeSleep ==
    /\ probe.pc = "sleep"
    /\ probe' = [ probe EXCEPT
           !.sleeps = @ + 1,
           !.slept = @ + probe.delay,
           !.attempt = @ + 1,
           !.pc = "loop" ]
    /\ UNCHANGED <<main_pc, exit_code, argv, ports, created, prev, window, calls, fs>>

\* range(max_attempts) is exhausted: print "not ready", return False
ProbeExhausted ==
    /\ probe.pc = "loop"
    /\ ~InRange(probe.attempt, probe.max_attempts)
    /\ probe' = [ probe EXCEPT !.ready = FALSE, !.pc = "done" ]
    /\ UNCHANGED <<main_pc, exit_code, argv, ports, created, prev, window, calls, fs>>

check_backend_ready ==
    \/ \E o \in HealthOutcomes : ProbeRequest(o)
    \/ ProbeSleep
    \/ ProbeExhausted

-----------------------------------------------------------------------------
(* Values *)

\* Python values that download_file handles: None, a str, a tuple of str.
\* val holds the string of a str and the items of a tuple.
PyNone == [kind |-> "None", val |-> <<>>]

PyStr(s) == [kind |-> "str", val |-> <<s>>]

PyTuple(items) == [kind |-> "tuple", val |-> items]

\* Python truth value: None, "" and () are falsy
Truthy(v) ==
    CASE v.kind = "None"  -> FALSE
      [] v.kind = "str"   -> v.val[1] # ""
      [] v.kind = "tuple" -> Len(v.val) > 0

\* isinstance(save_path, (tuple, list))
IsTupleOrList(v) == v.kind = "tuple"

\* Mutant of Item0: save_path[-1]
ItemLast(v) == [kind |-> "str", val |-> <<v.val[Len(v.val)]>>]

\* save_path[0]
Item0(v) == PyStr(v.val[1])

\* str(save_path) of a str is that str
Str(v) == PyStr(v.val[1])

\* s.endswith(suffix) on sequences of characters
EndsWith(s, suffix) ==
    /\ Len(s) >= Len(suffix)
    /\ SubSeq(s, Len(s) - Len(suffix) + 1, Len(s)) = suffix

DotZip == <<".", "z", "i", "p">>

-----------------------------------------------------------------------------
(* Inputs and environment of download_file *)

\* the bridge threads on which the host binding runs script calls
Threads == {"t1", "t2"}

\* doc_id arguments
DocIds == { <<"a">>, <<"b">> }

\* filename arguments
Filenames == { <<"r">>, <<"r", ".", "z", "i", "p">> }

\* bodies the backend serves for a download
Bodies == { <<1>>, <<2, 3>> }

\* responses of GET /api/download/{doc_id}
Responses ==
    { [status_code |-> 200, content |-> b] : b \in Bodies }
        \cup { [status_code |-> 404, content |-> <<>>] }

\* paths the user can choose in the save dialog
Paths == { "/dl/a.zip", "/dl/b.zip" }

\* what window.create_file_dialog(SAVE_DIALOG, ...) can return
DialogResults ==
    { PyNone, PyStr(""), PyTuple(<<>>), PyTuple(<<"", "/dl/a.zip">>),
      PyStr("/dl/a.zip"), PyTuple(<<"/dl/a.zip">>),
      PyTuple(<<"/dl/b.zip", "/dl/a.zip">>) }

NoWindow == "None"

NoFile == [exists |-> FALSE, data |-> <<>>]

File(data) == [exists |-> TRUE, data |-> data]

\* the destinations before any download: none exists, or one holds a
\* file of an earlier session
OldFiles ==
    { [p \in Paths |-> NoFile],
      [p \in Paths |-> IF p = "/dl/a.zip" THEN File(<<9, 9, 9>>) ELSE NoFile] }

-----------------------------------------------------------------------------
(* DownloadAPI *)

\* The frame of a thread that runs no download_file call.
IdleFrame ==
    [ pc |-> "idle", doc_id |-> <<>>, filename |-> <<>>,
      status_code |-> 0, content |-> <<>>, suggested_name |-> <<>>,
      dialog |-> PyNone, save_path |-> PyNone,
      exc |-> "none", outcome |-> "none", result |-> PyNone ]

\* def set_window(self, window): self._window = window
set_window(w) == window' = w

\* suggested_name = filename if filename.endswith('.zip') else f"{doc_id}.zip"
SuggestedName(doc_id, filename) ==
    IF EndsWith(filename, DotZip) THEN filename ELSE doc_id \o DotZip

\* Mutant of ResolveSavePath: nothing selected falls back to a default file
ResolveSavePathDefault(save_path) ==
    IF Truthy(save_path)
    THEN LET first == IF IsTupleOrList(save_path)
                      THEN (IF Truthy(save_path) THEN Item0(save_path) ELSE PyNone)
                      ELSE save_path
         IN  IF Truthy(first) THEN first ELSE PyStr("/dl/a.zip")
    ELSE PyStr("/dl/a.zip")

\* Lines 71-76: the path to save to, or None when nothing was selected
ResolveSavePath(save_path) ==
    IF Truthy(save_path)
    THEN LET first == IF IsTupleOrList(save_path)
                      THEN (IF Truthy(save_path) THEN Item0(save_path) ELSE PyNone)
                      ELSE save_path
         IN  IF Truthy(first) THEN first ELSE PyNone
    ELSE PyNone

\* Mutant of CaughtByExcept: "except requests.exceptions.RequestException"
CaughtOnlyRequestException(e) == e = "RequestException"

\* "except Exception as e": every exception class raised in the try block
\* derives from Exception
CaughtByExcept(e) ==
    e \in {"RequestException", "AttributeError", "OSError", "Exception"}

\* "return None" (lines 85, 89)
ReturnNone(frame) ==
    [ frame EXCEPT !.pc = "done", !.outcome = "returned", !.result = PyNone ]

\* An exception e raised inside the try block: the handler prints it and
\* returns None; an exception it does not catch leaves download_file.
Raise(frame, e) ==
    IF CaughtByExcept(e)
    THEN [ ReturnNone(frame) EXCEPT !.exc = e ]
    ELSE [ frame EXCEPT !.pc = "done", !.exc = e, !.outcome = "raised" ]

\* Entry of download_file(doc_id, filename) on thread t
DownloadCall(t, doc_id, filename) ==
    /\ calls[t].pc = "idle"
    /\ calls' = [ calls EXCEPT ![t] =
           [ IdleFrame EXCEPT !.pc = "fetch", !.doc_id = doc_id,
                              !.filename = filename ] ]
    /\ UNCHANGED <<main_pc, exit_code, argv, ports, created, prev, probe, window, fs>>

\* Mutant of FetchResponse: the status of the response is not looked at
FetchResponseIgnoresStatus(t, r) ==
    /\ calls[t].pc = "fetch"
    /\ calls' = [ calls EXCEPT ![t] =
           [ calls[t] EXCEPT !.status_code = r.status_code,
                             !.content = r.content,
                             !.pc = "dialog",
                             !.suggested_name =
                                 SuggestedName(calls[t].doc_id, calls[t].filename) ] ]
    /\ UNCHANGED <<main_pc, exit_code, argv, ports, created, prev, probe, window, fs>>

\* Lines 46-56 and 86-89: requests.get(download_url, timeout=60) answers r;
\* on a 200 the suggested name is computed, any other status returns None.
FetchResponse(t, r) ==
    /\ calls[t].pc = "fetch"
    /\ LET got == [ calls[t] EXCEPT !.status_code = r.status_code,
                                    !.content = r.content ]
       IN  calls' = [ calls EXCEPT ![t] =
               IF r.status_code = HTTP_OK
               THEN [ got EXCEPT !.pc = "dialog",
                        !.suggested_name =
                            SuggestedName(got.doc_id, got.filename) ]
               ELSE ReturnNone(got) ]
    /\ UNCHANGED <<main_pc, exit_code, argv, ports, created, prev, probe, window, fs>>

\* requests.get raises (connection error, timeout)
FetchRaises(t) ==
    /\ calls[t].pc = "fetch"
    /\ calls' = [ calls EXCEPT ![t] = Raise(calls[t], "RequestException") ]
    /\ UNCHANGED <<main_pc, exit_code, argv, ports, created, prev, probe, window, fs>>

\* Lines 61-85 up to open(): self._window.create_file_dialog(...) returns d.
\* With self._window None the attribute access raises AttributeError.
DialogReturns(t, d) ==
    /\ calls[t].pc = "dialog"
    /\ calls' = [ calls EXCEPT ![t] =
           IF window = NoWindow
           THEN Raise(calls[t], "AttributeError")
           ELSE LET path == ResolveSavePath(d)
                    seen == [ calls[t] EXCEPT !.dialog = d ]
                IN  IF Truthy(path)
                    THEN [ seen EXCEPT !.pc = "open", !.save_path = path ]
                    ELSE ReturnNone(seen) ]
    /\ UNCHANGED <<main_pc, exit_code, argv, ports, created, prev, probe, window, fs>>

\* Mutant of DialogRaises: the handler of a failed dialog drops the window
\* reference
DialogRaisesClearsWindow(t) ==
    /\ calls[t].pc = "dialog"
    /\ window # NoWindow
    /\ calls' = [ calls EXCEPT ![t] = Raise(calls[t], "Exception") ]
    /\ window' = NoWindow
    /\ UNCHANGED <<main_pc, exit_code, argv, ports, created, prev, probe, fs>>

\* create_file_dialog raises (the GUI backend fails, the window is gone)
DialogRaises(t) ==
    /\ calls[t].pc = "dialog"
    /\ window # NoWindow
    /\ calls' = [ calls EXCEPT ![t] = Raise(calls[t], "Exception") ]
    /\ UNCHANGED <<main_pc, exit_code, argv, ports, created, prev, probe, window, fs>>

\* Mutant of OpenFile: the file is opened for update without truncation
OpenFileNoTruncate(t) ==
    /\ calls[t].pc = "open"
    /\ calls' = [ calls EXCEPT ![t].pc = "write" ]
    /\ fs' = [ fs EXCEPT ![calls[t].save_path.val[1]] = File(@.data) ]
    /\ UNCHANGED <<main_pc, exit_code, argv, ports, created, prev, probe, window>>

\* Line 79: open(save_path, 'wb') creates the file or truncates it
OpenFile(t) ==
    /\ calls[t].pc = "open"
    /\ calls' = [ calls EXCEPT ![t].pc = "write" ]
    /\ fs' = [ fs EXCEPT ![calls[t].save_path.val[1]] = File(<<>>) ]
    /\ UNCHANGED <<main_pc, exit_code, argv, ports, created, prev, probe, window>>

\* open raises OSError (permission denied, no such directory)
OpenRaises(t) ==
    /\ calls[t].pc = "open"
    /\ calls' = [ calls EXCEPT ![t] = Raise(calls[t], "OSError") ]
    /\ UNCHANGED <<main_pc, exit_code, argv, ports, created, prev, probe, window, fs>>

\* bytes written at offset 0 of a file holding data
WriteAt0(data, bytes) ==
    bytes \o SubSeq(data, Len(bytes) + 1, Len(data))

\* Mutant of WriteFile: the response is kept on the bridge object, where a
\* later fetch of another call replaces it
WriteFileSharedResponse(t, n) ==
    LET others == { u \in Threads \ {t} : calls[u].pc \in {"dialog", "open", "write"} }
        content == IF others = {} THEN calls[t].content
                   ELSE calls[CHOOSE u \in others : TRUE].content
    IN  /\ calls[t].pc = "write"
        /\ n \in 0 .. Len(calls[t].content)
        /\ LET p == calls[t].save_path.val[1]
           IN  fs' = [ fs EXCEPT ![p] =
                   File(WriteAt0(fs[p].data, SubSeq(content, 1, Len(content)))) ]
        /\ calls' = [ calls EXCEPT ![t] =
               IF n = Len(calls[t].content)
               THEN [ calls[t] EXCEPT !.pc = "done", !.outcome = "returned",
                                      !.result = Str(calls[t].save_path) ]
               ELSE Raise(calls[t], "OSError") ]
        /\ UNCHANGED <<main_pc, exit_code, argv, ports, created, prev, probe, window>>

\* Mutant of WriteFile: the file is written but "return str(save_path)" is
\* missing, so the call falls through to "return None"
WriteFileNoReturn(t, n) ==
    /\ calls[t].pc = "write"
    /\ n \in 0 .. Len(calls[t].content)
    /\ LET p == calls[t].save_path.val[1]
       IN  fs' = [ fs EXCEPT ![p] =
               File(WriteAt0(fs[p].data, SubSeq(calls[t].content, 1, n))) ]
    /\ calls' = [ calls EXCEPT ![t] =
           IF n = Len(calls[t].content)
           THEN ReturnNone(calls[t])
           ELSE Raise(calls[t], "OSError") ]
    /\ UNCHANGED <<main_pc, exit_code, argv, ports, created, prev, probe, window>>

\* Lines 80-82: f.write(response.content) and the close that ends the with
\* block put n bytes of the content into the file, from this handle's offset
\* 0.  All of them: return str(save_path).  Fewer: OSError (disk full).
WriteFile(t, n) ==
    /\ calls[t].pc = "write"
    /\ n \in 0 .. Len(calls[t].content)
    /\ LET p == calls[t].save_path.val[1]
       IN  fs' = [ fs EXCEPT ![p] =
               File(WriteAt0(fs[p].data, SubSeq(calls[t].content, 1, n))) ]
    /\ calls' = [ calls EXCEPT ![t] =
           IF n = Len(calls[t].content)
           THEN [ calls[t] EXCEPT !.pc = "done", !.outcome = "returned",
                                  !.result = Str(calls[t].save_path) ]
           ELSE Raise(calls[t], "OSError") ]
    /\ UNCHANGED <<main_pc, exit_code, argv, ports, created, prev, probe, window>>

\* the host binding hands the call's result to the script; the thread ends
Deliver(t) ==
    /\ calls[t].pc = "done"
    /\ calls' = [ calls EXCEPT ![t] = IdleFrame ]
    /\ UNCHANGED <<main_pc, exit_code, argv, ports, created, prev, probe, window, fs>>

\* the steps of a download_file call after its entry
download_file ==
    \E t \in Threads :
        \/ \E r \in Responses : FetchResponse(t, r)
        \/ FetchRaises(t)
        \/ \E d \in DialogResults : DialogReturns(t, d)
        \/ DialogRaises(t)
        \/ OpenFile(t)
        \/ OpenRaises(t)
        \/ \E n \in 0 .. Len(calls[t].content) : WriteFile(t, n)
        \/ Deliver(t)

-----------------------------------------------------------------------------
(* main *)

\* api_port = 8080
DefaultApiPort == 8080

\* web_port = 8081
DefaultWebPort == 8081

Digits == {"0", "1", "2", "3", "4", "5", "6", "7", "8", "9"}

DigitValue(c) ==
    CASE c = "0" -> 0 [] c = "1" -> 1 [] c = "2" -> 2 [] c = "3" -> 3
      [] c = "4" -> 4 [] c = "5" -> 5 [] c = "6" -> 6 [] c = "7" -> 7
      [] c = "8" -> 8 [] c = "9" -> 9

\* the value of a sequence of digits
RECURSIVE Decimal(_)
Decimal(s) ==
    IF s = <<>> THEN 0
    ELSE 10 * Decimal(SubSeq(s, 1, Len(s) - 1)) + DigitValue(s[Len(s)])

\* the digits of s after an optional sign
Unsigned(s) ==
    IF s # <<>> /\ s[1] \in {"+", "-"} THEN SubSeq(s, 2, Len(s)) ELSE s

\* int(s) raises ValueError unless s is an optional sign and then digits
\* (surrounding blanks and digit-group underscores are not in the inputs)
IntRaisesValueError(s) ==
    \/ Unsigned(s) = <<>>
    \/ \E i \in 1 .. Len(Unsigned(s)) : Unsigned(s)[i] \notin Digits

\* int(s)
int(s) ==
    IF s # <<>> /\ s[1] = "-" THEN 0 - Decimal(Unsigned(s))
    ELSE Decimal(Unsigned(s))

\* command-line words
Words == { <<"9", "0">>, <<"-", "7">>, <<"8", "x">>, <<>> }

\* sys.argv: the script name and up to three arguments
Argvs ==
    { <<<<"l">>>> }
        \cup { <<<<"l">>, a>> : a \in Words }
        \cup { <<<<"l">>, a, b>> : a \in Words, b \in Words }
        \cup { <<<<"l">>, <<"9", "0">>, <<"8", "x">>, <<"9", "0">>>> }

\* "if len(sys.argv) > i: try: port = int(sys.argv[i]) except ValueError:
\* print(...)": the port after the statement.  sys.argv[i] is argv[i + 1].
ParsePort(args, i, port) ==
    IF Len(args) > i
    THEN IF IntRaisesValueError(args[i + 1]) THEN port ELSE int(args[i + 1])
    ELSE port

\* Mutant of MainParseWebPort: the web port is read only when the API port
\* argument was an integer
MainParseWebPortNested ==
    /\ main_pc = "parse_web"
    /\ ports' = [ ports EXCEPT !.web =
           IF Len(argv) > 1 /\ ~IntRaisesValueError(argv[2])
           THEN ParsePort(argv, 2, @) ELSE @ ]
    /\ main_pc' = "check"
    /\ UNCHANGED <<exit_code, argv, created, probe, window, calls, fs, prev>>

\* Lines 98-106: the defaults, then the API port argument
MainParseApiPort ==
    /\ main_pc = "parse_api"
    /\ ports' = [ api |-> ParsePort(argv, 1, DefaultApiPort),
                  web |-> DefaultWebPort ]
    /\ main_pc' = "parse_web"
    /\ UNCHANGED <<exit_code, argv, created, probe, window, calls, fs, prev>>

\* Lines 108-112: the web port argument
MainParseWebPort ==
    /\ main_pc = "parse_web"
    /\ ports' = [ ports EXCEPT !.web = ParsePort(argv, 2, @) ]
    /\ main_pc' = "check"
    /\ UNCHANGED <<exit_code, argv, created, probe, window, calls, fs, prev>>

\* Line 119: main calls check_backend_ready(api_url) with the defaults
MainCallProbe ==
    /\ main_pc = "check"
    /\ probe' = ProbeEntry(DefaultMaxAttempts, DefaultDelay)
    /\ main_pc' = "probing"
    /\ UNCHANGED <<exit_code, argv, ports, created, window, calls, fs, prev>>

\* Mutant of MainProbeReturned: the result of the probe is not looked at
MainProbeReturnedUngated ==
    /\ main_pc = "probing"
    /\ probe.pc = "done"
    /\ main_pc' = "construct"
    /\ probe' = ProbeIdle
    /\ UNCHANGED <<exit_code, argv, ports, created, window, calls, fs, prev>>

\* Lines 119-121: "if not check_backend_ready(api_url): ... sys.exit(1)";
\* the frame of the returned call is gone
MainProbeReturned ==
    /\ main_pc = "probing"
    /\ probe.pc = "done"
    /\ IF probe.ready
       THEN main_pc' = "construct" /\ UNCHANGED exit_code
       ELSE main_pc' = "exited" /\ exit_code' = 1
    /\ probe' = ProbeIdle
    /\ UNCHANGED <<argv, ports, created, window, calls, fs, prev>>

\* Line 127: api = DownloadAPI(api_url); __init__ sets self._window = None
MainCreateApi ==
    /\ main_pc = "construct"
    /\ window' = NoWindow
    /\ created' = created \cup {"api"}
    /\ main_pc' = "create_window"
    /\ UNCHANGED <<exit_code, argv, ports, probe, calls, fs, prev>>

\* Lines 130-140: window = webview.create_window(..., js_api=api)
MainCreateWindow ==
    /\ main_pc = "create_window"
    /\ created' = created \cup {"window"}
    /\ main_pc' = "set_window"
    /\ UNCHANGED <<exit_code, argv, ports, probe, window, calls, fs, prev>>

\* Mutant of MainSetWindow: the call of set_window is left out
MainSetWindowSkipped ==
    /\ main_pc = "set_window"
    /\ main_pc' = "start"
    /\ UNCHANGED <<exit_code, argv, ports, created, probe, window, calls, fs,
                   prev>>

\* Line 143: api.set_window(window)
MainSetWindow ==
    /\ main_pc = "set_window"
    /\ set_window("window")
    /\ main_pc' = "start"
    /\ UNCHANGED <<exit_code, argv, ports, created, probe, calls, fs, prev>>

\* Line 152: webview.start(...) runs the GUI event loop; the page loads and
\* its script can call the bridge from here on
MainStart ==
    /\ main_pc = "start"
    /\ main_pc' = "gui"
    /\ UNCHANGED <<exit_code, argv, ports, created, probe, window, calls, fs,
                   prev>>

\* Lines 152-154: the window is closed, webview.start returns, main returns
MainWindowClosed ==
    /\ main_pc = "gui"
    /\ main_pc' = "exited"
    /\ exit_code' = 0
    /\ UNCHANGED <<argv, ports, created, probe, window, calls, fs, prev>>

\* Lines 159-161: KeyboardInterrupt while main waits (in requests.get, in
\* time.sleep, in webview.start): "Interrupted by user", sys.exit(0)
MainInterrupted ==
    /\ \/ main_pc = "probing" /\ probe.pc \in {"loop", "sleep"}
       \/ main_pc = "gui"
    /\ main_pc' = "exited"
    /\ exit_code' = 0
    /\ probe' = ProbeIdle
    /\ UNCHANGED <<argv, ports, created, window, calls, fs, prev>>

\* Lines 162-164: webview.create_window or webview.start raises (no GUI
\* backend): "except Exception", sys.exit(1)
MainRaises ==
    /\ main_pc \in {"create_window", "start"}
    /\ main_pc' = "exited"
    /\ exit_code' = 1
    /\ UNCHANGED <<argv, ports, created, probe, window, calls, fs, prev>>

main ==
    \/ MainParseApiPort
    \/ MainParseWebPort
    \/ MainCallProbe
    \/ MainProbeReturned
    \/ MainCreateApi
    \/ MainCreateWindow
    \/ MainSetWindow
    \/ MainStart
    \/ MainWindowClosed
    \/ MainInterrupted
    \/ MainRaises

\* Script content of the started window calls the exposed download_file
ScriptCall ==
    /\ main_pc = "gui"
    /\ \E t \in Threads, d \in DocIds, f \in Filenames : DownloadCall(t, d, f)

\* main's variables where main does not run
NoMain ==
    /\ main_pc = "harness"
    /\ exit_code = 0
    /\ argv = <<<<"l">>>>
    /\ ports = [api |-> DefaultApiPort, web |-> DefaultWebPort]
    /\ created = {"api"}

-----------------------------------------------------------------------------
(* The launcher process *)

\* the process starts main with the command line args
InitMainWith(args) ==
    /\ main_pc = "parse_api"
    /\ exit_code = 0
    /\ argv = args
    /\ ports = [api |-> 0, web |-> 0]
    /\ created = {}
    /\ probe = ProbeIdle
    /\ window = NoWindow
    /\ calls = [t \in Threads |-> IdleFrame]
    /\ fs \in OldFiles
    /\ prev = IdleFrame

Init == InitMainWith(<<<<"l">>>>)

Next ==
    \/ main
    \/ check_backend_ready
    \/ ScriptCall
    \/ download_file

Spec == Init /\ [][Next]_vars

-----------------------------------------------------------------------------
(* main with any command line, without script calls *)

InitMain == \E args \in Argvs : InitMainWith(args)

NextMain ==
    \/ main
    \/ check_backend_ready

SpecMain == InitMain /\ [][NextMain]_vars

-----------------------------------------------------------------------------
(* check_backend_ready with any arguments *)

InitProbe ==
    /\ NoMain
    /\ prev = IdleFrame
    /\ \E m \in 0 .. MaxAttempts, d \in 0 .. MaxDelay : probe = ProbeEntry(m, d)
    /\ window = NoWindow
    /\ calls = [t \in Threads |-> IdleFrame]
    /\ fs = [p \in Paths |-> NoFile]

NextProbe == check_backend_ready

SpecProbe == InitProbe /\ [][NextProbe]_vars

\* requests.get returns within its timeout and time.sleep returns
FairSpecProbe == SpecProbe /\ WF_vars(NextProbe)

-----------------------------------------------------------------------------
(* A DownloadAPI object used through its public methods *)

InitBridge ==
    /\ NoMain
    /\ prev = IdleFrame
    /\ probe = ProbeIdle
    /\ window = NoWindow
    /\ calls = [t \in Threads |-> IdleFrame]
    /\ fs \in OldFiles

\* any caller of set_window
BridgeSetWindow ==
    /\ main_pc = "harness"
    /\ set_window("window")
    /\ UNCHANGED <<main_pc, exit_code, argv, ports, created, prev, probe, calls, fs>>

\* any caller of download_file
BridgeCall ==
    /\ main_pc = "harness"
    /\ \E t \in Threads, d \in DocIds, f \in Filenames : DownloadCall(t, d, f)

NextBridge ==
    \/ BridgeSetWindow
    \/ BridgeCall
    \/ download_file

SpecBridge == InitBridge /\ [][NextBridge]_vars

-----------------------------------------------------------------------------
(* A wired DownloadAPI whose caller makes a call and repeats it once *)

InitTwice ==
    /\ NoMain
    /\ prev = IdleFrame
    /\ probe = ProbeIdle
    /\ window = "window"
    /\ calls = [t \in Threads |-> IdleFrame]
    /\ fs \in OldFiles

\* the caller's first download_file(doc_id, filename)
FirstCall ==
    /\ main_pc = "harness"
    /\ prev.pc = "idle"
    /\ \E d \in DocIds, f \in Filenames : DownloadCall("t1", d, f)

\* the caller has the result of its first call and calls download_file
\* again with the same doc_id and filename
RepeatCall ==
    /\ main_pc = "harness"
    /\ prev.pc = "idle"
    /\ calls["t1"].pc = "done"
    /\ prev' = calls["t1"]
    /\ calls' = [ calls EXCEPT !["t1"] =
           [ IdleFrame EXCEPT !.pc = "fetch",
                              !.doc_id = calls["t1"].doc_id,
                              !.filename = calls["t1"].filename ] ]
    /\ UNCHANGED <<main_pc, exit_code, argv, ports, created, probe, window, fs>>

NextTwice ==
    \/ FirstCall
    \/ RepeatCall
    \/ download_file

SpecTwice == InitTwice /\ [][NextTwice]_vars

-----------------------------------------------------------------------------
(* Properties of download_file *)

\* thread t's call returns (or raises) in this step
Returns(t) == calls[t].pc # "done" /\ calls'[t].pc = "done"

\* the dialog returned d, a non-empty path or a sequence that starts with one
ChosePath(d) ==
    /\ d.kind \in {"str", "tuple"}
    /\ Len(d.val) > 0
    /\ d.val[1] # ""

\* the frame of a call whose fetch was answered 200 and whose dialog, shown
\* by the wired window, returned a non-empty path or a sequence whose first
\* element is one
FetchedAndChosen(frame) ==
    /\ frame.status_code = HTTP_OK
    /\ ChosePath(frame.dialog)

\* C1 as stated: every call with a 200 response and a path P from the dialog
\* returns exactly P and, when it returns, the file at P holds exactly the
\* response body.
C1_AsStated ==
    [][\A t \in Threads :
          (Returns(t) /\ FetchedAndChosen(calls'[t]))
              => /\ calls'[t].outcome = "returned"
                 /\ calls'[t].result = PyStr(calls'[t].dialog.val[1])
                 /\ fs'[calls'[t].dialog.val[1]] = File(calls'[t].content)]_vars

\* C1 amended: a call with a 200 response and a path P from the dialog, whose
\* open and write raise no error and whose destination received no bytes of
\* another call after this call's open truncated it, returns exactly P and,
\* when it returns, the file at P holds exactly the response body.
C1_DownloadReturnsPathAndWritesBody ==
    [][\A t \in Threads :
          (/\ Returns(t)
           /\ FetchedAndChosen(calls'[t])
           /\ calls'[t].exc = "none"
           /\ fs[calls'[t].dialog.val[1]].data = <<>>)
              => /\ calls'[t].outcome = "returned"
                 /\ calls'[t].result = PyStr(calls'[t].dialog.val[1])
                 /\ fs'[calls'[t].dialog.val[1]] = File(calls'[t].content)]_vars

\* a call fetched the two-byte body, the dialog returned a sequence of two
\* paths, the call returned the first and the file there holds the body
C1_Witness ==
    \E t \in Threads :
        /\ calls[t].pc = "done"
        /\ calls[t].content = <<2, 3>>
        /\ calls[t].dialog = PyTuple(<<"/dl/b.zip", "/dl/a.zip">>)
        /\ calls[t].result = PyStr("/dl/b.zip")
        /\ fs["/dl/b.zip"] = File(<<2, 3>>)
        /\ window # NoWindow

\* C2: no exception leaves download_file: a call that ended has returned, and
\* a call in which the fetch, the dialog or the file write raised has
\* returned None.
C2_NoExceptionReachesCaller ==
    \A t \in Threads :
        calls[t].pc = "done"
            => /\ calls[t].outcome = "returned"
               /\ calls[t].exc # "none" => calls[t].result = PyNone

\* calls have ended after a failed fetch and after a write that failed
\* part-way
C2_Witness ==
    /\ calls["t1"].pc = "done" /\ calls["t1"].exc = "RequestException"
    /\ calls["t2"].pc = "done" /\ calls["t2"].exc = "OSError"
    /\ calls["t2"].content = <<2, 3>>
    /\ fs[calls["t2"].save_path.val[1]] = File(<<2>>)

\* C3 as stated: for every non-empty sequence from the dialog the call writes
\* to and returns the sequence's first element; for an empty sequence or a
\* falsy value it returns None.
C3_AsStated ==
    [][\A t \in Threads :
          (Returns(t) /\ calls'[t].status_code = HTTP_OK
                      /\ calls'[t].exc \notin {"AttributeError", "Exception"})
              => IF calls'[t].dialog.kind = "tuple" /\ Len(calls'[t].dialog.val) > 0
                 THEN /\ calls'[t].result = PyStr(calls'[t].dialog.val[1])
                      /\ calls[t].pc = "write"
                      /\ calls[t].save_path = PyStr(calls'[t].dialog.val[1])
                 ELSE Truthy(calls'[t].dialog) \/ calls'[t].result = PyNone]_vars

\* C3 amended: for a non-empty sequence whose first element is a non-empty
\* path, the destination is that first element: it is the path opened and
\* written, and the value returned unless open or write raises (then None is
\* returned).  For an empty sequence, a sequence whose first element is empty
\* and any falsy value, no destination is resolved and None is returned.
C3_DialogResultNormalized ==
    \A t \in Threads :
        LET frame == calls[t]
            d == frame.dialog
        IN  /\ (d.kind = "tuple" /\ ChosePath(d))
                => /\ frame.pc \in {"open", "write", "done"}
                   /\ frame.save_path = PyStr(d.val[1])
                   /\ frame.pc = "done"
                        => frame.result =
                             (IF frame.exc = "none" THEN PyStr(d.val[1]) ELSE PyNone)
            /\ (frame.pc \in {"open", "write", "done"}
                    /\ frame.status_code = HTTP_OK /\ ~ChosePath(d))
                => /\ frame.pc = "done"
                   /\ frame.save_path = PyNone
                   /\ frame.result = PyNone

\* one call returned the first of two paths, another returned None for a
\* sequence whose first element is the empty string
C3_Witness ==
    /\ calls["t1"].pc = "done"
    /\ calls["t1"].dialog = PyTuple(<<"/dl/b.zip", "/dl/a.zip">>)
    /\ calls["t1"].result = PyStr("/dl/b.zip")
    /\ calls["t2"].pc = "done"
    /\ calls["t2"].dialog = PyTuple(<<"", "/dl/a.zip">>)
    /\ calls["t2"].result = PyNone

\* C4: a call whose download request is answered with a status other than
\* 200 returns None straight from the fetch (it never reaches the dialog,
\* open or write) and its steps leave the files unchanged.
C4_Non200ReturnsNoneWritesNothing ==
    [][\A t \in Threads :
          (calls'[t] # calls[t] /\ calls'[t].pc \notin {"idle", "fetch"}
                /\ calls'[t].status_code \notin {0, HTTP_OK})
              => /\ calls[t].pc = "fetch"
                 /\ calls'[t].pc = "done"
                 /\ calls'[t].outcome = "returned"
                 /\ calls'[t].result = PyNone
                 /\ fs' = fs]_vars

\* a call answered 404 has returned None while a file of an earlier session
\* is still in place
C4_Witness ==
    \E t \in Threads :
        /\ calls[t].pc = "done"
        /\ calls[t].status_code = 404
        /\ calls[t].result = PyNone
        /\ fs["/dl/a.zip"] = File(<<9, 9, 9>>)

\* C5: when the dialog returns an empty sequence or another falsy value, the
\* call returns None from the dialog step (it never opens a file), raises
\* nothing, and the files are unchanged.
C5_CancelReturnsNoneWritesNothing ==
    [][\A t \in Threads :
          (/\ calls[t].pc = "dialog"
           /\ calls'[t].pc # "dialog"
           /\ calls'[t].exc = "none"
           /\ ~Truthy(calls'[t].dialog))
              => /\ calls'[t].pc = "done"
                 /\ calls'[t].outcome = "returned"
                 /\ calls'[t].result = PyNone
                 /\ calls'[t].save_path = PyNone
                 /\ fs' = fs]_vars

\* a call has returned None after the dialog returned the empty sequence
C5_Witness ==
    \E t \in Threads :
        /\ calls[t].pc = "done"
        /\ calls[t].status_code = HTTP_OK
        /\ calls[t].dialog = PyTuple(<<>>)
        /\ calls[t].exc = "none"
        /\ calls[t].outcome = "returned"
        /\ calls[t].result = PyNone

-----------------------------------------------------------------------------
(* Properties of the wiring *)

\* C6: once the event loop is started, and so whenever a download_file call
\* is in progress or has ended, the bridge's window reference is set.
C6_WindowSetBeforeAnyDownload ==
    (main_pc = "gui" \/ \E t \in Threads : calls[t].pc # "idle")
        => window # NoWindow

\* a call of the launcher's script content is about to show the dialog
C6_Witness ==
    \E t \in Threads :
        /\ calls[t].pc = "dialog"
        /\ main_pc = "gui"
        /\ window = "window"

\* C7: a download_file call made and ended while the window reference is
\* unset, whose fetch was answered 200, does not end by returning None as a
\* cancelled or failed download does.
C7_UnsetWindowFailsLoudly ==
    \A t \in Threads :
        (calls[t].pc = "done" /\ window = NoWindow
                /\ calls[t].status_code = HTTP_OK)
            => ~(calls[t].outcome = "returned" /\ calls[t].result = PyNone)

-----------------------------------------------------------------------------
(* Properties of check_backend_ready *)

\* C8: when the first health request answered 200 is request k, the function
\* has returned True with exactly k requests made and k - 1 sleeps (of delay
\* seconds each) taken: it returns in the step that receives the 200.
C8_ReturnsTrueAtFirst200 ==
    probe.first200 > 0
        => /\ probe.pc = "done"
           /\ probe.ready = TRUE
           /\ probe.first200 <= probe.max_attempts
           /\ probe.requests = probe.first200
           /\ probe.sleeps = probe.first200 - 1
           /\ probe.slept = (probe.first200 - 1) * probe.delay

\* the second request was answered 200
C8_Witness ==
    /\ probe.pc = "done"
    /\ probe.first200 = 2
    /\ probe.max_attempts = 3
    /\ probe.ready = TRUE

\* no more than max_attempts requests are made, and a call in which no
\* request was answered 200 returns False after exactly max_attempts requests
C9_Safety ==
    /\ probe.requests <= probe.max_attempts
    /\ (probe.pc = "done" /\ probe.first200 = 0)
         => (probe.ready = FALSE /\ probe.requests = probe.max_attempts)

\* C9: when every attempt fails (non-200 status or request error alike), the
\* function terminates, returning False after exactly max_attempts health
\* requests, never more.
C9_ExhaustionReturnsFalse ==
    []C9_Safety /\ <>(probe.pc = "done")

\* three failed attempts, the last one a request error, then False
C9_Witness ==
    /\ probe.pc = "done"
    /\ probe.max_attempts = 3
    /\ probe.requests = 3
    /\ probe.last = "error"
    /\ probe.ready = FALSE

\* C10: when every attempt fails, the function has slept exactly
\* max_attempts - 1 times when it returns False.
C10_SleepsOnlyBetweenAttempts ==
    (probe.pc = "done" /\ probe.first200 = 0 /\ probe.max_attempts >= 1)
        => probe.sleeps = probe.max_attempts - 1

-----------------------------------------------------------------------------
(* Further properties of download_file *)

\* C11: the suggested filename handed to the save dialog is the caller's
\* filename when it ends with .zip, and otherwise the caller's filename with
\* .zip appended, whatever the document id.
C11_SuggestedNameFromFilename ==
    \A t \in Threads :
        (calls[t].pc \in {"dialog", "open", "write", "done"}
                /\ calls[t].status_code = HTTP_OK)
            => calls[t].suggested_name =
                 (IF EndsWith(calls[t].filename, DotZip)
                  THEN calls[t].filename
                  ELSE calls[t].filename \o DotZip)

\* the files as they can be before any download
Untouched(p) == { old[p] : old \in OldFiles }

\* C12: whenever a call returns, a destination it opened holds the complete
\* fetched content or is as it was before any download touched it; a call
\* that opened nothing leaves the files unchanged.
C12_WriteIsAtomic ==
    [][\A t \in Threads :
          Returns(t)
              => IF calls[t].pc = "write"
                 THEN \/ fs'[calls[t].save_path.val[1]] = File(calls[t].content)
                      \/ fs'[calls[t].save_path.val[1]]
                            \in Untouched(calls[t].save_path.val[1])
                 ELSE fs' = fs]_vars

CallSteps ==
    { <<"idle", "fetch">>, <<"fetch", "dialog">>, <<"fetch", "done">>,
      <<"dialog", "open">>, <<"dialog", "done">>, <<"open", "write">>,
      <<"open", "done">>, <<"write", "done">>, <<"done", "idle">> }

\* C17: within a call the dialog is shown at most once and only after the
\* fetch was answered 200; a file is opened and written at most once and
\* only after the dialog returned a non-empty destination, which is the file
\* written; no file changes without such a call.
C17_FetchThenDialogThenWrite ==
    [][/\ \A t \in Threads :
            calls'[t] # calls[t]
                => /\ <<calls[t].pc, calls'[t].pc>> \in CallSteps
                   /\ calls'[t].pc = "dialog"
                        => calls'[t].status_code = HTTP_OK
                   /\ calls'[t].pc \in {"open", "write"}
                        => /\ calls'[t].status_code = HTTP_OK
                           /\ ChosePath(calls'[t].dialog)
                           /\ calls'[t].save_path =
                                PyStr(calls'[t].dialog.val[1])
       /\ fs' # fs
            => \E t \in Threads :
                  /\ calls[t].pc \in {"open", "write"}
                  /\ calls'[t].pc # calls[t].pc
                  /\ calls[t].status_code = HTTP_OK
                  /\ ChosePath(calls[t].dialog)
                  /\ \A p \in Paths :
                        fs'[p] # fs[p] => p = calls[t].dialog.val[1]]_vars

\* a call that fetched a body and got a path from the dialog has truncated
\* the file of an earlier session and is about to write
C17_Witness ==
    \E t \in Threads :
        /\ calls[t].pc = "write"
        /\ calls[t].status_code = HTTP_OK
        /\ calls[t].dialog = PyStr("/dl/a.zip")
        /\ fs["/dl/a.zip"] = File(<<>>)
        /\ \A u \in Threads \ {t} : calls[u].pc = "idle"

\* call t returns while call u, for another document and with another
\* destination, is between its dialog and its return
OverlapAtReturn(t, u) ==
    /\ t # u
    /\ Returns(t)
    /\ FetchedAndChosen(calls'[t])
    /\ calls[u].pc \in {"open", "write"}
    /\ calls[u].doc_id # calls'[t].doc_id
    /\ calls[u].save_path # PyStr(calls'[t].dialog.val[1])

\* C18 as stated: of two overlapping calls for different documents that
\* resolve to different destinations, each returns its own path and each
\* file holds exactly the bytes fetched by its own call.
C18_AsStated ==
    [][\A t, u \in Threads :
          OverlapAtReturn(t, u)
              => /\ calls'[t].result = PyStr(calls'[t].dialog.val[1])
                 /\ fs'[calls'[t].dialog.val[1]] = File(calls'[t].content)]_vars

\* C18 amended: a step of one call changes neither the frame of another call
\* nor a file other than its own destination; and of two overlapping calls
\* for different documents with different destinations, a call whose open
\* and write raise no error, and whose destination received no bytes of a
\* third call since it was opened, returns its own path with the file
\* holding exactly its own fetched bytes and the other call's file unchanged.
C18_OverlappingCallsIsolated ==
    [][\A t, u \in Threads :
          /\ (t # u /\ calls'[t] # calls[t])
                => /\ calls'[u] = calls[u]
                   /\ \A p \in Paths :
                         fs'[p] # fs[p] => calls[t].save_path = PyStr(p)
          /\ (/\ OverlapAtReturn(t, u)
              /\ calls'[t].exc = "none"
              /\ fs[calls'[t].dialog.val[1]].data = <<>>)
                => /\ calls'[t].result = PyStr(calls'[t].dialog.val[1])
                   /\ fs'[calls'[t].dialog.val[1]] = File(calls'[t].content)
                   /\ fs'[calls[u].save_path.val[1]] =
                        fs[calls[u].save_path.val[1]]]_vars

\* two calls for different documents have returned different paths, and
\* each file holds the bytes of its own call
C18_Witness ==
    /\ calls["t1"].pc = "done" /\ calls["t2"].pc = "done"
    /\ calls["t1"].doc_id = <<"a">> /\ calls["t2"].doc_id = <<"b">>
    /\ calls["t1"].content = <<1>> /\ calls["t2"].content = <<2, 3>>
    /\ calls["t1"].result = PyStr("/dl/a.zip")
    /\ calls["t2"].result = PyStr("/dl/b.zip")
    /\ fs["/dl/a.zip"] = File(<<1>>)
    /\ fs["/dl/b.zip"] = File(<<2, 3>>)

\* the second of two calls with the same arguments returns, after the same
\* 200 response and the same path from the dialog as the first
SecondReturns(t) ==
    /\ Returns(t)
    /\ prev.pc = "done"
    /\ FetchedAndChosen(prev)
    /\ FetchedAndChosen(calls'[t])
    /\ calls'[t].doc_id = prev.doc_id /\ calls'[t].filename = prev.filename
    /\ calls'[t].content = prev.content
    /\ calls'[t].dialog.val[1] = prev.dialog.val[1]

\* C15 as stated: two successive calls with identical inputs, the same
\* response and the same path from the dialog both return that path, and
\* the second write leaves the complete content in the file.
C15_AsStated ==
    [][\A t \in Threads :
          SecondReturns(t)
              => /\ prev.result = PyStr(prev.dialog.val[1])
                 /\ calls'[t].result = PyStr(prev.dialog.val[1])
                 /\ fs'[prev.dialog.val[1]] = File(prev.content)]_vars

\* C15 amended: with no other call in flight, two successive calls with
\* identical inputs, the same response and the same path from the dialog,
\* in neither of which open or write raises, both return that path; the file
\* holds the complete content after the first call, the second call
\* truncates it and writes it again, and it holds the same complete content
\* after the second call.
C15_RepeatedDownloadOverwrites ==
    [][\A t \in Threads :
          /\ (/\ prev.pc = "idle" /\ prev'.pc = "done"
              /\ FetchedAndChosen(prev') /\ prev'.exc = "none")
                => /\ prev'.result = PyStr(prev'.dialog.val[1])
                   /\ fs[prev'.dialog.val[1]] = File(prev'.content)
          /\ (SecondReturns(t) /\ prev.exc = "none" /\ calls'[t].exc = "none")
                => /\ prev.result = PyStr(prev.dialog.val[1])
                   /\ calls'[t].result = PyStr(prev.dialog.val[1])
                   /\ calls[t].pc = "write"
                   /\ fs[prev.dialog.val[1]] = File(<<>>)
                   /\ fs'[prev.dialog.val[1]] = File(prev.content)]_vars

\* both calls returned the path and the file holds the two-byte body
C15_Witness ==
    /\ prev.pc = "done"
    /\ prev.content = <<2, 3>>
    /\ prev.result = PyStr("/dl/a.zip")
    /\ calls["t1"].pc = "done"
    /\ calls["t1"].doc_id = prev.doc_id
    /\ calls["t1"].filename = prev.filename
    /\ calls["t1"].content = <<2, 3>>
    /\ calls["t1"].result = PyStr("/dl/a.zip")
    /\ fs["/dl/a.zip"] = File(<<2, 3>>)

-----------------------------------------------------------------------------
(* Properties of main *)

\* C14: the bridge and the window are created only after
\* check_backend_ready returned True; when it returns False the process
\* exits with status 1 and nothing created; health requests are made only
\* while main waits in its one call of check_backend_ready.
C14_ProbeGatesWindow ==
    [][/\ created' # created
            => main_pc \in {"construct", "create_window"}
       /\ main_pc' = "construct"
            => /\ main_pc \in {"probing", "construct"}
               /\ main_pc = "probing" => (probe.pc = "done" /\ probe.ready)
       /\ (main_pc = "probing" /\ probe.pc = "done" /\ ~probe.ready
                /\ main_pc' # main_pc)
            => /\ main_pc' = "exited"
               /\ exit_code' = 1
               /\ created' = {}
       /\ probe'.requests # probe.requests
            => main_pc = "probing"
       /\ main_pc' = "probing" => main_pc \in {"check", "probing"}
       /\ main_pc = "exited" => (main_pc' = "exited" /\ created' = created)]_vars

\* the probe was exhausted and the process has exited with status 1,
\* nothing created
C14_Witness ==
    /\ main_pc = "exited"
    /\ exit_code = 1
    /\ created = {}

\* the port that argument i of the command line stands for
ExpectedPort(args, i, default) ==
    IF Len(args) > i /\ args[i + 1] = <<"9", "0">> THEN 90
    ELSE IF Len(args) > i /\ args[i + 1] = <<"-", "7">> THEN 0 - 7
    ELSE default

\* C16: each port argument is parsed on its own: an integer argument sets
\* its port, a missing or non-integer one leaves the default (8080, 8081),
\* and main goes on to the readiness check in every case.
C16_PortsParsedIndependently ==
    [][/\ main_pc = "parse_api"
            => /\ main_pc' \in {"parse_api", "parse_web"}
               /\ main_pc' = "parse_web"
                    => ports'.api = ExpectedPort(argv, 1, 8080)
       /\ main_pc = "parse_web"
            => /\ main_pc' \in {"parse_web", "check"}
               /\ main_pc' = "check"
                    => /\ ports'.api = ExpectedPort(argv, 1, 8080)
                       /\ ports'.web = ExpectedPort(argv, 2, 8081)
       /\ main_pc \notin {"parse_api", "parse_web"} => ports' = ports
       /\ main_pc = "check" => main_pc' \in {"check", "probing"}]_vars

\* a non-integer API port and an integer web port: the probe runs with the
\* default API port and the given web port
C16_Witness ==
    /\ main_pc = "probing"
    /\ argv = << <<"l">>, <<"8", "x">>, <<"9", "0">> >>
    /\ ports = [api |-> 8080, web |-> 90]

====
